---- MODULE Spec2Model ----
(***************************************************************************)
(* Paper trading engine of latestbot: the PaperTradingStrategy object      *)
(* (src/backend/strategies/paper_trading.py) and the command handlers of   *)
(* the Flask blueprint that drive it (src/backend/api.py).                  *)
(*                                                                         *)
(* Money and prices are fixed-point integers: one unit is 1/PriceScale of  *)
(* the base currency.  Quantities are whole coins.                         *)
(***************************************************************************)
EXTENDS Integers, Sequences, FiniteSets, TLC

\* ------------------------------------------------------------------ bounds
\* Longest trade history explored (accepted orders stop being issued there).
MaxTrades == 2

\* ------------------------------------------------- fixed-point unit, sentinels
\* Python floats are modelled as integers counting thousandths.
PriceScale == 1000

\* get_current_price's "return None".
None == -1

\* The live query raised (network, auth, rate limit, unknown symbol).
LiveFail == 0

\* self.client = None.
NoClient == "None"

\* A Client object created by create_client.
LiveClient == "Client"

\* ------------------------------------------------------------ input sets
\* Symbols the requests name: one the price simulation knows, one it does not.
Symbols == {"ETHUSDT", "LTCUSDT"}

\* float(data.get('quantity', 0.001)) as whole coins; 0 is an invalid quantity.
Quantities == {0, 2}

\* Prices a successful live ticker query can report.
LivePrices == {3000 * PriceScale, 6000 * PriceScale}

\* Outcome of one live ticker query: an exception or a price.
LiveOutcomes == {LiveFail} \cup LivePrices

\* np.random.random() in hundredths, a value of [0, 1).
RandomPercents == {0, 99}

\* config['balance'] values a configuration file may hold.
ConfigBalances == {0, 10000 * PriceScale}

\* Strings a credential field may hold; "" is the empty (falsy) string.
KeyValues == {"", "K"}

\* ------------------------------------------------------------ finite maps
\* A Python dict is a function on the set of its keys.
EmptyDict == [s \in {} |-> 0]

DictSet(d, k, v) == [s \in (DOMAIN d) \cup {k} |-> IF s = k THEN v ELSE d[s]]

DictDel(d, k) == [s \in (DOMAIN d) \ {k} |-> d[s]]

DictGet(d, k, default) == IF k \in DOMAIN d THEN d[k] ELSE default

\* ------------------------------------------------------------ price source
\* Symbols the simulation has a plausible price for.
KnownSymbols == {"BTCUSDT", "ETHUSDT", "ADAUSDT", "SOLUSDT", "DOTUSDT", "XRPUSDT"}

\* Centre of the simulated price of a known symbol.
SyntheticBase(symbol) ==
    CASE symbol = "BTCUSDT" -> 46700 * PriceScale
      [] symbol = "ETHUSDT" -> 3220 * PriceScale
      [] symbol = "ADAUSDT" -> 350
      [] symbol = "SOLUSDT" -> 142 * PriceScale
      [] symbol = "DOTUSDT" -> 7500
      [] symbol = "XRPUSDT" -> 530

\* Width of the interval the simulated price of a known symbol is drawn from.
SyntheticSpread(symbol) ==
    CASE symbol = "BTCUSDT" -> 100 * PriceScale
      [] symbol = "ETHUSDT" -> 20 * PriceScale
      [] symbol = "ADAUSDT" -> 10
      [] symbol = "SOLUSDT" -> 3 * PriceScale
      [] symbol = "DOTUSDT" -> 200
      [] symbol = "XRPUSDT" -> 10

\* Default price for unknown symbols.
DefaultPrice == 100 * PriceScale

\* The simulated price, r being np.random.random() in hundredths.
SyntheticPrice(symbol, r) ==
    IF symbol \in KnownSymbols
    THEN SyntheticBase(symbol)
         + ((r * SyntheticSpread(symbol)) \div 100 - SyntheticSpread(symbol) \div 2)
    ELSE DefaultPrice

\* get_current_price with a fault in the except branch: the error is re-raised.
get_current_price_reraises(cl, lp, symbol, live, r) ==
    IF cl # NoClient
    THEN IF live # LiveFail
         THEN [price |-> live, last_prices |-> DictSet(lp, symbol, live), raised |-> FALSE]
         ELSE [price |-> None, last_prices |-> lp, raised |-> TRUE]
    ELSE IF symbol \in DOMAIN lp
         THEN [price |-> lp[symbol], last_prices |-> lp, raised |-> FALSE]
         ELSE [price |-> SyntheticPrice(symbol, r), last_prices |-> lp, raised |-> FALSE]

\* get_current_price with a fault on the success path: the cache is not written.
get_current_price_no_cache_write(cl, lp, symbol, live, r) ==
    IF cl # NoClient
    THEN IF live # LiveFail
         THEN [price |-> live, last_prices |-> lp, raised |-> FALSE]
         ELSE [price |-> DictGet(lp, symbol, None), last_prices |-> lp, raised |-> FALSE]
    ELSE IF symbol \in DOMAIN lp
         THEN [price |-> lp[symbol], last_prices |-> lp, raised |-> FALSE]
         ELSE [price |-> SyntheticPrice(symbol, r), last_prices |-> lp, raised |-> FALSE]

\* get_current_price with a fault in the simulation: unknown symbols get no price.
get_current_price_no_default(cl, lp, symbol, live, r) ==
    IF cl # NoClient
    THEN IF live # LiveFail
         THEN [price |-> live, last_prices |-> DictSet(lp, symbol, live), raised |-> FALSE]
         ELSE [price |-> DictGet(lp, symbol, None), last_prices |-> lp, raised |-> FALSE]
    ELSE IF symbol \in DOMAIN lp
         THEN [price |-> lp[symbol], last_prices |-> lp, raised |-> FALSE]
         ELSE [price |-> IF symbol \in KnownSymbols THEN SyntheticPrice(symbol, r) ELSE None,
               last_prices |-> lp, raised |-> FALSE]

\* get_current_price with an expiring cache: a failed live query drops the entry.
get_current_price_expires(cl, lp, symbol, live, r) ==
    IF cl # NoClient
    THEN IF live # LiveFail
         THEN [price |-> live, last_prices |-> DictSet(lp, symbol, live), raised |-> FALSE]
         ELSE [price |-> DictGet(lp, symbol, None), last_prices |-> DictDel(lp, symbol),
               raised |-> FALSE]
    ELSE IF symbol \in DOMAIN lp
         THEN [price |-> lp[symbol], last_prices |-> lp, raised |-> FALSE]
         ELSE [price |-> SyntheticPrice(symbol, r), last_prices |-> lp, raised |-> FALSE]

\* get_current_price that also caches the price it simulates.
get_current_price_caches_simulated(cl, lp, symbol, live, r) ==
    IF cl # NoClient
    THEN IF live # LiveFail
         THEN [price |-> live, last_prices |-> DictSet(lp, symbol, live), raised |-> FALSE]
         ELSE [price |-> DictGet(lp, symbol, None), last_prices |-> lp, raised |-> FALSE]
    ELSE IF symbol \in DOMAIN lp
         THEN [price |-> lp[symbol], last_prices |-> lp, raised |-> FALSE]
         ELSE [price |-> SyntheticPrice(symbol, r),
               last_prices |-> DictSet(lp, symbol, SyntheticPrice(symbol, r)),
               raised |-> FALSE]

\* PaperTradingStrategy.get_current_price: the price returned and the cache
\* left behind.  live is the outcome the exchange gives if it is queried.
get_current_price(cl, lp, symbol, live, r) ==
    IF cl # NoClient
    THEN IF live # LiveFail
         THEN [price |-> live, last_prices |-> DictSet(lp, symbol, live), raised |-> FALSE]
         ELSE [price |-> DictGet(lp, symbol, None), last_prices |-> lp, raised |-> FALSE]
    ELSE IF symbol \in DOMAIN lp
         THEN [price |-> lp[symbol], last_prices |-> lp, raised |-> FALSE]
         ELSE [price |-> SyntheticPrice(symbol, r), last_prices |-> lp, raised |-> FALSE]

\* update_status_file's valuation loop, as far as it changes the engine: one
\* get_current_price per held symbol, lm giving each query's live outcome.
RECURSIVE status_prices(_, _, _, _)
status_prices(cl, lp, todo, lm) ==
    IF todo = {}
    THEN lp
    ELSE LET s == CHOOSE x \in todo : TRUE
         IN status_prices(cl, get_current_price(cl, lp, s, lm[s], 0).last_prices,
                          todo \ {s}, lm)

\* Live outcomes of the queries one update_status_file makes: one per held
\* symbol; without a client nothing is queried.
LiveMaps(cl, hold) ==
    IF cl = NoClient
    THEN {[s \in DOMAIN hold |-> LiveFail]}
    ELSE [DOMAIN hold -> LiveOutcomes]

\* Outcomes worth drawing for one query: without a client nothing is queried.
LiveChoices(cl) == IF cl = NoClient THEN {LiveFail} ELSE LiveOutcomes

\* Random draws worth making: only the simulation of a known symbol reads one.
RandomChoices(cl, lp, symbol) ==
    IF cl = NoClient /\ symbol \notin DOMAIN lp /\ symbol \in KnownSymbols
    THEN RandomPercents
    ELSE {0}

\* ------------------------------------------------------------ credentials
\* api_keys_configured satisfied by either field alone.
api_keys_configured_either(cfg) == cfg.api_key # "" \/ cfg.api_secret # ""

\* PaperTradingStrategy.api_keys_configured.
api_keys_configured(cfg) == cfg.api_key # "" /\ cfg.api_secret # ""

\* PaperTradingStrategy.create_client: connect_ok says whether Client() and
\* ping() went through.
create_client(cfg, connect_ok) ==
    IF cfg.api_key # "" /\ cfg.api_secret # ""
    THEN IF connect_ok THEN LiveClient ELSE NoClient
    ELSE NoClient

\* update_api_keys whose backup write lets its failure out: the client is
\* not created again.
update_api_keys_backup_failure_escapes(cfg, bf, key, secret, backup_ok, connect_ok) ==
    LET newcfg == [cfg EXCEPT !.api_key = key, !.api_secret = secret]
    IN IF backup_ok
       THEN [config |-> newcfg,
             backup_file |-> [state |-> "ok", api_key |-> key, api_secret |-> secret],
             client |-> create_client(newcfg, connect_ok)]
       ELSE [config |-> newcfg, backup_file |-> bf, client |-> NoClient]

\* PaperTradingStrategy.update_api_keys: the config, the backup file and the
\* client it leaves.  backup_ok says whether the backup file could be written.
update_api_keys(cfg, bf, key, secret, backup_ok, connect_ok) ==
    LET newcfg == [cfg EXCEPT !.api_key = key, !.api_secret = secret]
    IN [config |-> newcfg,
        backup_file |-> IF backup_ok
                        THEN [state |-> "ok", api_key |-> key, api_secret |-> secret]
                        ELSE bf,
        client |-> create_client(newcfg, connect_ok)]

\* attempt_to_recover_api_keys with the two sources in the other order.
attempt_to_recover_api_keys_file_first(cfg, bf, cl, ev, backup_ok, connect_ok) ==
    IF bf.state = "ok" /\ bf.api_key # "" /\ bf.api_secret # ""
    THEN [recovered |-> TRUE,
          after |-> update_api_keys(cfg, bf, bf.api_key, bf.api_secret, backup_ok, connect_ok)]
    ELSE IF ev.api_key # "" /\ ev.api_secret # ""
    THEN [recovered |-> TRUE,
          after |-> update_api_keys(cfg, bf, ev.api_key, ev.api_secret, backup_ok, connect_ok)]
    ELSE [recovered |-> FALSE,
          after |-> [config |-> cfg, backup_file |-> bf, client |-> cl]]

\* attempt_to_recover_api_keys: environment first, backup file second.
attempt_to_recover_api_keys(cfg, bf, cl, ev, backup_ok, connect_ok) ==
    IF ev.api_key # "" /\ ev.api_secret # ""
    THEN [recovered |-> TRUE,
          after |-> update_api_keys(cfg, bf, ev.api_key, ev.api_secret, backup_ok, connect_ok)]
    ELSE IF bf.state = "ok" /\ bf.api_key # "" /\ bf.api_secret # ""
    THEN [recovered |-> TRUE,
          after |-> update_api_keys(cfg, bf, bf.api_key, bf.api_secret, backup_ok, connect_ok)]
    ELSE [recovered |-> FALSE,
          after |-> [config |-> cfg, backup_file |-> bf, client |-> cl]]

\* PaperTradingStrategy.save_config: the file holds the configuration unless
\* it could not be opened for writing; the failure is logged and goes no
\* further.
save_config(cfg, file, save_ok) == IF save_ok THEN cfg ELSE file

\* PaperTradingStrategy.test_api_connection: a client is created when there is
\* none, then ping and get_server_time are sent; ping_ok says whether both
\* went through.  It returns a truth value and never raises.
test_api_connection(cfg, cl, connect_ok, ping_ok) ==
    LET probed == IF cl = NoClient THEN create_client(cfg, connect_ok) ELSE cl
    IN [client |-> probed, ok |-> probed # NoClient /\ ping_ok, raised |-> FALSE]

\* ------------------------------------------------------------ order executor
\* A Trade record as update_status_file reads it (timestamp and type left out).
Trade(symbol, side, quantity, price, balance_after) ==
    [symbol |-> symbol, side |-> side, quantity |-> quantity, price |-> price,
     value |-> quantity * price, balance_after |-> balance_after]

\* place_buy_order without the funds check.
place_buy_order_no_funds_check(bal, hold, hist, cl, lp, symbol, quantity, live, r) ==
    LET got == get_current_price(cl, lp, symbol, live, r)
        cost == quantity * got.price
    IN IF quantity <= 0 \/ got.price = None
       THEN [success |-> FALSE, message |-> "Invalid order", balance |-> bal,
             holdings |-> hold, trade_history |-> hist, last_prices |-> got.last_prices]
       ELSE [success |-> TRUE, message |-> "Buy order executed", balance |-> bal - cost,
             holdings |-> DictSet(hold, symbol, DictGet(hold, symbol, 0) + quantity),
             trade_history |-> Append(hist, Trade(symbol, "buy", quantity, got.price, bal - cost)),
             last_prices |-> got.last_prices]

\* place_buy_order: validate, resolve the price, check the funds, commit.
place_buy_order(bal, hold, hist, cl, lp, symbol, quantity, live, r) ==
    LET got == get_current_price(cl, lp, symbol, live, r)
        cost == quantity * got.price
    IN IF quantity <= 0
       THEN [success |-> FALSE, message |-> "Invalid quantity", balance |-> bal,
             holdings |-> hold, trade_history |-> hist, last_prices |-> lp]
       ELSE IF got.price = None
       THEN [success |-> FALSE, message |-> "Price unavailable", balance |-> bal,
             holdings |-> hold, trade_history |-> hist, last_prices |-> got.last_prices]
       ELSE IF cost > bal
       THEN [success |-> FALSE, message |-> "Insufficient funds", balance |-> bal,
             holdings |-> hold, trade_history |-> hist, last_prices |-> got.last_prices]
       ELSE [success |-> TRUE, message |-> "Buy order executed", balance |-> bal - cost,
             holdings |-> DictSet(hold, symbol, DictGet(hold, symbol, 0) + quantity),
             trade_history |-> Append(hist, Trade(symbol, "buy", quantity, got.price, bal - cost)),
             last_prices |-> got.last_prices]

\* place_sell_order without the holdings check.
place_sell_order_no_holdings_check(bal, hold, hist, cl, lp, symbol, quantity, live, r) ==
    LET got == get_current_price(cl, lp, symbol, live, r)
        proceeds == quantity * got.price
        left == DictGet(hold, symbol, 0) - quantity
    IN IF quantity <= 0 \/ got.price = None
       THEN [success |-> FALSE, message |-> "Invalid order", balance |-> bal,
             holdings |-> hold, trade_history |-> hist, last_prices |-> got.last_prices]
       ELSE [success |-> TRUE, message |-> "Sell order executed", balance |-> bal + proceeds,
             holdings |-> IF left = 0 THEN DictDel(hold, symbol) ELSE DictSet(hold, symbol, left),
             trade_history |-> Append(hist, Trade(symbol, "sell", quantity, got.price, bal + proceeds)),
             last_prices |-> got.last_prices]

\* place_sell_order: validate, resolve the price, check the holding, commit.
place_sell_order(bal, hold, hist, cl, lp, symbol, quantity, live, r) ==
    LET got == get_current_price(cl, lp, symbol, live, r)
        proceeds == quantity * got.price
        left == DictGet(hold, symbol, 0) - quantity
    IN IF quantity <= 0
       THEN [success |-> FALSE, message |-> "Invalid quantity", balance |-> bal,
             holdings |-> hold, trade_history |-> hist, last_prices |-> lp]
       ELSE IF got.price = None
       THEN [success |-> FALSE, message |-> "Price unavailable", balance |-> bal,
             holdings |-> hold, trade_history |-> hist, last_prices |-> got.last_prices]
       ELSE IF quantity > DictGet(hold, symbol, 0)
       THEN [success |-> FALSE, message |-> "Insufficient holdings", balance |-> bal,
             holdings |-> hold, trade_history |-> hist, last_prices |-> got.last_prices]
       ELSE [success |-> TRUE, message |-> "Sell order executed", balance |-> bal + proceeds,
             holdings |-> IF left = 0 THEN DictDel(hold, symbol) ELSE DictSet(hold, symbol, left),
             trade_history |-> Append(hist, Trade(symbol, "sell", quantity, got.price, bal + proceeds)),
             last_prices |-> got.last_prices]

\* ------------------------------------------------------------ status file
\* Random draws of the queries one update_status_file makes.
RandomMaps(cl, lp, hold) ==
    {rm \in [DOMAIN hold -> RandomPercents \cup {0}] :
        \A s \in DOMAIN hold : rm[s] \in RandomChoices(cl, lp, s)}

\* The price update_status_file gets for a held symbol.  The queries of one
\* pass are for different symbols, so none reads what another cached.
status_price(cl, lp, s, lm, rm) == get_current_price(cl, lp, s, lm[s], rm[s]).price

\* "if price:" of line 75: None and 0 are falsy.
price_truthy(price) == price # None /\ price # 0

\* holdings_with_value: the held symbols whose price passed "if price:".
holdings_with_value(hold, cl, lp, lm, rm) ==
    LET priced == {s \in DOMAIN hold : price_truthy(status_price(cl, lp, s, lm, rm))}
    IN [s \in priced |-> hold[s]]

\* total_value of lines 70-77: the balance plus amount * price of each symbol
\* of todo.
RECURSIVE total_value(_, _, _, _, _, _, _)
total_value(bal, hold, todo, cl, lp, lm, rm) ==
    IF todo = {}
    THEN bal
    ELSE LET s == CHOOSE x \in todo : TRUE
         IN total_value(bal, hold, todo \ {s}, cl, lp, lm, rm)
            + hold[s] * status_price(cl, lp, s, lm, rm)

\* The slice trade_history[:n], the oldest trades.
history_slice_oldest(hist, n) ==
    SubSeq(hist, 1, IF n < Len(hist) THEN n ELSE Len(hist))

\* The slice trade_history[-n:] of line 82, as Python evaluates it for any n.
history_slice(hist, n) ==
    IF n > 0
    THEN SubSeq(hist, (IF n < Len(hist) THEN Len(hist) - n ELSE 0) + 1, Len(hist))
    ELSE SubSeq(hist, 1 - n, Len(hist))

\* calculate_profit_loss: the current valuation less the initial balance.
calculate_profit_loss(valuation, ib) == valuation - ib

\* Line 106 without its guard: dividing by a zero initial balance raises.
return_pct_unguarded(pl, ib) ==
    IF ib # 0
    THEN [value |-> pl \div (ib \div 100), raised |-> FALSE]
    ELSE [value |-> 0, raised |-> TRUE]

\* Line 106: the return in whole percent, 0 unless initial_balance > 0.
\* (pl / ib) * 100 is computed as pl / (ib / 100): configured balances are
\* whole multiples of 100 units, and pl * 100 would leave 32 bits.
return_pct(pl, ib) ==
    IF ib > 0
    THEN [value |-> pl \div (ib \div 100), raised |-> FALSE]
    ELSE [value |-> 0, raised |-> FALSE]

\* The status object of lines 95-114 (mode, currency, timestamps, win rate,
\* Sharpe ratio and drawdown left out).
update_status_file(cfg, n, running, bal, ib, hold, hist, cl, lp, lm, rm) ==
    LET shown == holdings_with_value(hold, cl, lp, lm, rm)
        value == total_value(bal, hold, DOMAIN shown, cl, lp, lm, rm)
        pl == calculate_profit_loss(value, ib)
        pct == return_pct(pl, ib)
    IN [served |-> TRUE,
        is_running |-> running,
        balance |-> bal,
        holdings |-> shown,
        portfolio_value |-> value,
        total_trades |-> Len(hist),
        profit_loss |-> pl,
        return_pct |-> pct.value,
        raised |-> pct.raised,
        trade_history |-> history_slice(hist, n),
        api_keys_configured |-> (cfg.api_key # "" /\ cfg.api_secret # "")]

\* ------------------------------------------------------------------ state
VARIABLES
    config,          \* strategy.config: balance, api_key, api_secret
    env,             \* BINANCE_API_KEY / BINANCE_API_SECRET of the process
    backup_file,     \* api_keys_backup.json
    client,          \* strategy.client
    is_running,      \* strategy.is_running
    balance,         \* strategy.balance
    initial_balance, \* strategy.initial_balance
    holdings,        \* strategy.holdings
    trade_history,   \* strategy.trade_history
    last_prices,     \* strategy.last_prices, the price cache
    response,        \* what the last command handler returned
    price_query,     \* the last direct get_current_price call and its result
    pc,              \* where the reset handler stands
    config_file,     \* the credentials paper_trading_config.json holds
    max_history_items, \* strategy.config['max_history_items']
    status,          \* the status GET /paper_trading_status.json last served
    api_status,      \* what GET /api-status last answered
    request_pc       \* where the requests handled in threads of their own stand

vars == <<config, env, backup_file, client, is_running, balance, initial_balance,
          holdings, trade_history, last_prices, response, price_query, pc,
          config_file, max_history_items, status, api_status, request_pc>>

\* The ledger of section 4.3.
ledger == <<balance, holdings, trade_history>>

\* The credential state.
credentials == <<config, backup_file, client, config_file>>

\* What the process was deployed with and no handler writes.
deployment == <<env, max_history_items>>

\* The answers of the two GET routes.
served == <<status, api_status>>

\* Environment pairs: unset, a lone key, a complete pair.
EnvPairs ==
    {[api_key |-> "", api_secret |-> ""],
     [api_key |-> "EK", api_secret |-> ""],
     [api_key |-> "EK", api_secret |-> "ES"]}

\* Backup files: none, unreadable, a lone secret, a complete pair.
BackupFiles ==
    {[state |-> "absent", api_key |-> "", api_secret |-> ""],
     [state |-> "corrupt", api_key |-> "", api_secret |-> ""],
     [state |-> "ok", api_key |-> "", api_secret |-> "BS"],
     [state |-> "ok", api_key |-> "BK", api_secret |-> "BS"]}

\* No command answered yet.
NoResponse == [command |-> "none", status |-> "none", message |-> ""]

\* No price queried yet.
NoQuery == [symbol |-> "", had_client |-> FALSE, cached |-> None, live |-> LiveFail,
            price |-> None, raised |-> FALSE]

\* No request is being handled in a thread of its own: no reset_account under
\* way, no order past its is_running check, no price query in flight.
NoRequests == [reset |-> "idle", order |-> "idle", query |-> "idle"]

\* No status served yet.
NoStatus ==
    [served |-> FALSE, is_running |-> FALSE, balance |-> 0, holdings |-> EmptyDict,
     portfolio_value |-> 0, total_trades |-> 0, profit_loss |-> 0, return_pct |-> 0,
     raised |-> FALSE, trade_history |-> <<>>, api_keys_configured |-> FALSE]

\* GET /api-status not answered yet.
NoApiStatus ==
    [asked |-> FALSE, keys_configured |-> FALSE, api_working |-> FALSE, probe_ok |-> FALSE]

\* config['max_history_items'] values: shorter than, as long as and (the
\* default) longer than the histories explored.
HistoryLimits == {1, 2, 100}

\* PaperTradingStrategy.__init__ on a configuration file, then the module
\* globals of api.py: every configuration, environment and backup file.
Construct ==
    /\ config \in [balance : ConfigBalances, api_key : KeyValues, api_secret : KeyValues]
    /\ env \in EnvPairs
    /\ backup_file \in BackupFiles
    /\ client \in {create_client(config, ok) : ok \in BOOLEAN}
    /\ is_running = FALSE
    /\ balance = config.balance
    /\ initial_balance = config.balance
    /\ holdings = EmptyDict
    /\ trade_history = <<>>
    /\ last_prices = EmptyDict
    /\ response = NoResponse
    /\ price_query = NoQuery
    /\ pc = "idle"
    /\ config_file = config
    /\ max_history_items \in HistoryLimits
    /\ status = NoStatus
    /\ api_status = NoApiStatus
    /\ request_pc = NoRequests

\* The deployments the trading runs start from: keys configured or absent
\* (never a lone key), no keys in the environment, a backup file that is
\* absent or holds a complete pair.
Init ==
    /\ Construct
    /\ (config.api_key = "") = (config.api_secret = "")
    /\ env.api_key = ""
    /\ backup_file.state = "absent" \/ api_keys_configured(backup_file)
    /\ api_keys_configured(config) => backup_file.state = "absent"
    /\ max_history_items = 100

\* trading_thread is never assigned after line 56, so line 191 always passes.
trading_thread_alive == FALSE

\* strategy.start(): the engine runs.
strategy_start == TRUE

\* strategy.stop(): the engine is stopped.
strategy_stop == FALSE

\* jsonify of a handler's answer.
Answer(command, outcome, message) ==
    [command |-> command, status |-> outcome, message |-> message]

\* ------------------------------------------------------------ command handlers
\* The save_config that ends update_api_keys when the start handler recovered
\* keys; a start that found keys in place saves nothing.
recovery_save(havekeys, newcfg, save_ok) ==
    config_file' = IF havekeys THEN config_file ELSE save_config(newcfg, config_file, save_ok)

\* The 'start' branch of handle_command; skip_key_check = FALSE is the code.
start_command(skip_key_check, ack, backup_ok, save_ok, connect_ok) ==
    LET havekeys == api_keys_configured(config)
        rec == attempt_to_recover_api_keys(config, backup_file, client, env,
                                           backup_ok, connect_ok)
        after == IF havekeys
                 THEN [config |-> config, backup_file |-> backup_file, client |-> client]
                 ELSE rec.after
    IN /\ pc = "idle"
       /\ IF is_running
          THEN /\ response' = Answer("start", "success", "Trading already running")
               /\ UNCHANGED <<credentials, is_running, last_prices>>
          ELSE IF ~skip_key_check /\ ~havekeys /\ ~rec.recovered
          THEN /\ response' = Answer("start", "error", "API keys not configured")
               /\ UNCHANGED <<credentials, is_running, last_prices>>
          ELSE IF trading_thread_alive
          THEN /\ response' = Answer("start", "error", "Trading thread already running")
               /\ config' = after.config
               /\ backup_file' = after.backup_file
               /\ client' = after.client
               /\ recovery_save(havekeys, after.config, save_ok)
               /\ UNCHANGED <<is_running, last_prices>>
          ELSE /\ config' = after.config
               /\ backup_file' = after.backup_file
               /\ client' = after.client
               /\ recovery_save(havekeys, after.config, save_ok)
               /\ is_running' = strategy_start
               /\ \E lm \in LiveMaps(after.client, holdings) :
                      last_prices' = status_prices(after.client, last_prices, DOMAIN holdings, lm)
               /\ response' = Answer("start", "success", "Trading started")
       /\ UNCHANGED <<deployment, request_pc, served, ledger, initial_balance, price_query, pc>>

\* A start handler that lets the request's acknowledgment stand in for keys.
handle_start_honours_ack(ack, backup_ok, save_ok, connect_ok) ==
    start_command(ack, ack, backup_ok, save_ok, connect_ok)

\* handle_command, command == 'start'.  ack is a field of the request.
handle_start(ack, backup_ok, save_ok, connect_ok) ==
    start_command(FALSE, ack, backup_ok, save_ok, connect_ok)

\* A stop handler that refuses to stop a stopped engine.
handle_stop_refuses_when_stopped ==
    /\ pc = "idle"
    /\ IF ~is_running
       THEN /\ response' = Answer("stop", "error", "Trading is not running")
            /\ UNCHANGED <<is_running, last_prices>>
       ELSE /\ is_running' = strategy_stop
            /\ \E lm \in LiveMaps(client, holdings) :
                   last_prices' = status_prices(client, last_prices, DOMAIN holdings, lm)
            /\ response' = Answer("stop", "success", "Trading stopped")
    /\ UNCHANGED <<deployment, request_pc, served, credentials, ledger, initial_balance, price_query, pc>>

\* handle_command, command == 'stop'.
handle_stop ==
    /\ pc = "idle"
    /\ IF ~is_running
       THEN /\ response' = Answer("stop", "success", "Trading already stopped")
            /\ UNCHANGED <<is_running, last_prices>>
       ELSE /\ is_running' = strategy_stop
            /\ \E lm \in LiveMaps(client, holdings) :
                   last_prices' = status_prices(client, last_prices, DOMAIN holdings, lm)
            /\ response' = Answer("stop", "success", "Trading stopped")
    /\ UNCHANGED <<deployment, request_pc, served, credentials, ledger, initial_balance, price_query, pc>>

\* A reset handler that forgets to stop the engine.
reset_stop_skipped ==
    /\ pc = "idle"
    /\ pc' = "reset_account"
    /\ UNCHANGED <<deployment, request_pc, served, credentials, is_running, ledger, initial_balance, last_prices,
                   response, price_query>>

\* handle_command, command == 'reset', line 219: strategy.stop().
reset_stop ==
    /\ pc = "idle"
    /\ is_running' = strategy_stop
    /\ pc' = "reset_account"
    /\ UNCHANGED <<deployment, request_pc, served, credentials, ledger, initial_balance, last_prices, response,
                   price_query>>

\* reset_account that keeps the trade history.
reset_account_keeps_history ==
    /\ balance' = config.balance
    /\ initial_balance' = config.balance
    /\ holdings' = EmptyDict
    /\ last_prices' = EmptyDict
    /\ UNCHANGED trade_history

\* PaperTradingStrategy.reset_account.
reset_account ==
    /\ balance' = config.balance
    /\ initial_balance' = config.balance
    /\ holdings' = EmptyDict
    /\ trade_history' = <<>>
    /\ last_prices' = EmptyDict

\* handle_command, command == 'reset', lines 220-225: reset_account(), then
\* update_status_file() on the emptied holdings, then the answer.
reset_finish ==
    /\ pc = "reset_account"
    /\ reset_account
    /\ response' = Answer("reset", "success", "Account reset")
    /\ pc' = "idle"
    /\ UNCHANGED <<deployment, request_pc, served, credentials, is_running, price_query>>

\* An order answer that reports success whatever the executor said.
order_answer_always_success(command, success, message) ==
    Answer(command, "success", message)

\* Lines 240-249 and 264-273: the executor's verdict becomes the HTTP answer.
order_answer(command, success, message) ==
    Answer(command, IF success THEN "success" ELSE "error", message)

\* The 'buy' branch of handle_command, given what strategy.is_running reads.
buy_command(running, symbol, quantity, live, r) ==
    LET o == place_buy_order(balance, holdings, trade_history, client, last_prices,
                             symbol, quantity, live, r)
    IN /\ pc = "idle"
       /\ Len(trade_history) < MaxTrades
       /\ IF ~running
          THEN /\ response' = Answer("buy", "error", "Trading is not running")
               /\ UNCHANGED <<ledger, last_prices>>
          ELSE /\ balance' = o.balance
               /\ holdings' = o.holdings
               /\ trade_history' = o.trade_history
               /\ \E lm \in LiveMaps(client, o.holdings) :
                      last_prices' = status_prices(client, o.last_prices, DOMAIN o.holdings, lm)
               /\ response' = order_answer("buy", o.success, o.message)
       /\ UNCHANGED <<deployment, request_pc, served, credentials, is_running, initial_balance, price_query, pc>>

\* A buy handler without the is_running check.
handle_buy_unguarded(symbol, quantity, live, r) ==
    buy_command(TRUE, symbol, quantity, live, r)

\* handle_command, command == 'buy'.
handle_buy(symbol, quantity, live, r) ==
    buy_command(is_running, symbol, quantity, live, r)

\* handle_command, command == 'sell'.
handle_sell(symbol, quantity, live, r) ==
    LET o == place_sell_order(balance, holdings, trade_history, client, last_prices,
                              symbol, quantity, live, r)
    IN /\ pc = "idle"
       /\ Len(trade_history) < MaxTrades
       /\ IF ~is_running
          THEN /\ response' = Answer("sell", "error", "Trading is not running")
               /\ UNCHANGED <<ledger, last_prices>>
          ELSE /\ balance' = o.balance
               /\ holdings' = o.holdings
               /\ trade_history' = o.trade_history
               /\ \E lm \in LiveMaps(client, o.holdings) :
                      last_prices' = status_prices(client, o.last_prices, DOMAIN o.holdings, lm)
               /\ response' = order_answer("sell", o.success, o.message)
       /\ UNCHANGED <<deployment, request_pc, served, credentials, is_running, initial_balance, price_query, pc>>

\* handle_command, command == 'api'.
handle_api(key, secret, backup_ok, save_ok, connect_ok) ==
    LET after == update_api_keys(config, backup_file, key, secret, backup_ok, connect_ok)
    IN /\ pc = "idle"
       /\ IF key = "" \/ secret = ""
          THEN /\ response' = Answer("api", "error", "API key and secret are required")
               /\ UNCHANGED <<credentials, last_prices>>
          ELSE /\ config' = after.config
               /\ backup_file' = after.backup_file
               /\ client' = after.client
               /\ config_file' = save_config(after.config, config_file, save_ok)
               /\ \E lm \in LiveMaps(after.client, holdings) :
                      last_prices' = status_prices(after.client, last_prices, DOMAIN holdings, lm)
               /\ response' = Answer("api", "success", "API keys updated")
       /\ UNCHANGED <<deployment, request_pc, served, is_running, ledger, initial_balance, price_query, pc>>

\* One get_current_price(symbol) call whose result the caller keeps.
price_lookup(symbol, live, r) ==
    LET got == get_current_price(client, last_prices, symbol, live, r)
    IN /\ last_prices' = got.last_prices
       /\ price_query' = [symbol |-> symbol, had_client |-> client # NoClient,
                          cached |-> DictGet(last_prices, symbol, None), live |-> live,
                          price |-> got.price, raised |-> got.raised]
       /\ UNCHANGED <<deployment, request_pc, served, credentials, is_running, ledger, initial_balance,
                      response, pc>>

\* One pass of the background evaluation loop: a price query per symbol.
evaluation_cycle(symbol, live, r) ==
    /\ is_running
    /\ pc = "idle"
    /\ last_prices' = get_current_price(client, last_prices, symbol, live, r).last_prices
    /\ UNCHANGED <<deployment, request_pc, served, credentials, is_running, ledger, initial_balance, response,
                   price_query, pc>>

\* GET /paper_trading_status.json: update_status_file(), then the file is sent.
serve_status_file(lm, rm) ==
    /\ pc = "idle"
    /\ status' = update_status_file(config, max_history_items, is_running, balance,
                                    initial_balance, holdings, trade_history, client,
                                    last_prices, lm, rm)
    /\ last_prices' = status_prices(client, last_prices, DOMAIN holdings, lm)
    /\ UNCHANGED <<deployment, request_pc, credentials, is_running, ledger, initial_balance, response,
                   price_query, pc, api_status>>

\* GET /api-status: the connection is probed when both keys are set, and
\* api_working is set once the probe returned, whatever it returned.
get_api_status(connect_ok, ping_ok) ==
    LET keys == config.api_key # "" /\ config.api_secret # ""
        probe == test_api_connection(config, client, connect_ok, ping_ok)
    IN /\ pc = "idle"
       /\ client' = IF keys THEN probe.client ELSE client
       /\ api_status' = [asked |-> TRUE,
                         keys_configured |-> keys,
                         api_working |-> keys /\ ~probe.raised,
                         probe_ok |-> keys /\ probe.ok]
       /\ UNCHANGED <<deployment, request_pc, config, backup_file, config_file, is_running, ledger,
                      initial_balance, last_prices, response, price_query, pc, status>>

\* ------------------------------------------------- requests in their own threads
\* Neither api.py nor paper_trading.py takes a lock, and the server handles
\* each request in a thread of its own: a handler's attribute assignments are
\* steps other handlers run between.  request_pc.reset is the line of the
\* 'reset' branch and of reset_account the reset request stands before.

\* handle_command, command == 'reset', line 219, as a request of its own.
reset_request_stop ==
    /\ request_pc.reset = "idle"
    /\ is_running' = strategy_stop
    /\ request_pc' = [request_pc EXCEPT !.reset = "balance"]
    /\ UNCHANGED <<deployment, served, credentials, ledger, initial_balance, last_prices,
                   response, price_query, pc>>

\* reset_account, line 131: self.balance = self.config.get('balance', 10000).
reset_request_balance ==
    /\ request_pc.reset = "balance"
    /\ balance' = config.balance
    /\ request_pc' = [request_pc EXCEPT !.reset = "initial_balance"]
    /\ UNCHANGED <<deployment, served, credentials, is_running, holdings, trade_history,
                   initial_balance, last_prices, response, price_query, pc>>

\* reset_account, line 132: self.initial_balance = self.balance.
reset_request_initial_balance ==
    /\ request_pc.reset = "initial_balance"
    /\ initial_balance' = balance
    /\ request_pc' = [request_pc EXCEPT !.reset = "holdings"]
    /\ UNCHANGED <<deployment, served, credentials, is_running, ledger, last_prices,
                   response, price_query, pc>>

\* reset_account, line 133: self.holdings = {}.
reset_request_holdings ==
    /\ request_pc.reset = "holdings"
    /\ holdings' = EmptyDict
    /\ request_pc' = [request_pc EXCEPT !.reset = "trade_history"]
    /\ UNCHANGED <<deployment, served, credentials, is_running, balance, trade_history,
                   initial_balance, last_prices, response, price_query, pc>>

\* reset_account, line 135: self.trade_history = [].
reset_request_trade_history ==
    /\ request_pc.reset = "trade_history"
    /\ trade_history' = <<>>
    /\ request_pc' = [request_pc EXCEPT !.reset = "last_prices"]
    /\ UNCHANGED <<deployment, served, credentials, is_running, balance, holdings,
                   initial_balance, last_prices, response, price_query, pc>>

\* reset_account, line 138: self.last_prices = {}.
reset_request_last_prices ==
    /\ request_pc.reset = "last_prices"
    /\ last_prices' = EmptyDict
    /\ request_pc' = [request_pc EXCEPT !.reset = "answer"]
    /\ UNCHANGED <<deployment, served, credentials, is_running, ledger, initial_balance,
                   response, price_query, pc>>

\* handle_command, command == 'reset', lines 220-225 after reset_account:
\* update_status_file() on whatever is held by then, and the answer.
reset_request_answer ==
    /\ request_pc.reset = "answer"
    /\ \E lm \in LiveMaps(client, holdings) :
           last_prices' = status_prices(client, last_prices, DOMAIN holdings, lm)
    /\ response' = Answer("reset", "success", "Account reset")
    /\ request_pc' = [request_pc EXCEPT !.reset = "idle"]
    /\ UNCHANGED <<deployment, served, credentials, is_running, ledger, initial_balance,
                   price_query, pc>>

\* handle_command, command == 'buy', lines 231-235 as a request of its own: the
\* is_running check.
buy_request_check ==
    /\ request_pc.order = "idle"
    /\ IF is_running
       THEN /\ request_pc' = [request_pc EXCEPT !.order = "place_buy_order"]
            /\ UNCHANGED response
       ELSE /\ response' = Answer("buy", "error", "Trading is not running")
            /\ UNCHANGED request_pc
    /\ UNCHANGED <<deployment, served, credentials, is_running, ledger, initial_balance,
                   last_prices, price_query, pc>>

\* handle_command, command == 'buy', lines 237-249: the order is placed, the
\* status file refreshed and the executor's verdict answered.
buy_request_place(symbol, quantity, live, r) ==
    LET o == place_buy_order(balance, holdings, trade_history, client, last_prices,
                             symbol, quantity, live, r)
    IN /\ request_pc.order = "place_buy_order"
       /\ Len(trade_history) < MaxTrades
       /\ balance' = o.balance
       /\ holdings' = o.holdings
       /\ trade_history' = o.trade_history
       /\ \E lm \in LiveMaps(client, o.holdings) :
              last_prices' = status_prices(client, o.last_prices, DOMAIN o.holdings, lm)
       /\ response' = order_answer("buy", o.success, o.message)
       /\ request_pc' = [request_pc EXCEPT !.order = "idle"]
       /\ UNCHANGED <<deployment, served, credentials, is_running, initial_balance,
                      price_query, pc>>

\* get_current_price as a call of its own, line 217: "if self.client:" is read
\* and the call goes on to the ticker query or to the fallback tiers.
query_request_check(symbol) ==
    /\ request_pc.query # "in_flight"
    /\ price_query' = [symbol |-> symbol, had_client |-> client # NoClient,
                       cached |-> DictGet(last_prices, symbol, None), live |-> LiveFail,
                       price |-> None, raised |-> FALSE]
    /\ request_pc' = [request_pc EXCEPT !.query = "in_flight"]
    /\ UNCHANGED <<deployment, status, api_status, credentials, is_running, ledger,
                   initial_balance, last_prices, response, pc>>

\* get_current_price, lines 218-251, for the call that read self.client
\* earlier.  The ticker query runs on the connection the call got hold of or
\* raises on a self.client that is None by now: live covers both.  The cache
\* is read as it is now.  The call is marked stale when self.client is no
\* longer what line 217 saw.
query_request_finish(live, r) ==
    LET seen == IF price_query.had_client THEN LiveClient ELSE NoClient
        got == get_current_price(seen, last_prices, price_query.symbol, live, r)
    IN /\ request_pc.query = "in_flight"
       /\ last_prices' = got.last_prices
       /\ price_query' = [price_query EXCEPT
                            !.cached = DictGet(last_prices, price_query.symbol, None),
                            !.live = live,
                            !.price = got.price,
                            !.raised = got.raised]
       /\ request_pc' = [request_pc EXCEPT
                            !.query = IF seen = client THEN "answered" ELSE "answered_stale"]
       /\ UNCHANGED <<deployment, status, api_status, credentials, is_running, ledger,
                      initial_balance, response, pc>>

\* ------------------------------------------------------------ specifications
\* The trading runs: every command, with a configuration file that can be
\* written (the runs with a failing save are those of SpecCred).
Next ==
    \/ \E ack, backup_ok, connect_ok \in BOOLEAN :
           handle_start(ack, backup_ok, TRUE, connect_ok)
    \/ handle_stop
    \/ reset_stop
    \/ reset_finish
    \/ \E symbol \in Symbols, quantity \in Quantities :
         \E live \in LiveChoices(client), r \in RandomChoices(client, last_prices, symbol) :
           handle_buy(symbol, quantity, live, r)
    \/ \E symbol \in Symbols, quantity \in Quantities :
         \E live \in LiveChoices(client), r \in RandomChoices(client, last_prices, symbol) :
           handle_sell(symbol, quantity, live, r)
    \/ \E key, secret \in KeyValues, backup_ok, connect_ok \in BOOLEAN :
           handle_api(key, secret, backup_ok, TRUE, connect_ok)
    \/ \E symbol \in Symbols :
         \E live \in LiveChoices(client), r \in RandomChoices(client, last_prices, symbol) :
           evaluation_cycle(symbol, live, r)

Spec == Init /\ [][Next]_vars

\* Symbols a price is asked for.
QuerySymbols == Symbols \cup {"BTCUSDT", "ADAUSDT"}

\* Caches the engine can hold: an entry is a price some live query reported.
PriceCaches == UNION {[D -> LivePrices] : D \in SUBSET Symbols}

\* The price source in any of its states: a client or none, any cache.
InitPrice ==
    /\ config = [balance |-> 10000 * PriceScale, api_key |-> "K", api_secret |-> "K"]
    /\ env = [api_key |-> "", api_secret |-> ""]
    /\ backup_file = [state |-> "absent", api_key |-> "", api_secret |-> ""]
    /\ client \in {NoClient, LiveClient}
    /\ is_running = FALSE
    /\ balance = config.balance
    /\ initial_balance = config.balance
    /\ holdings = EmptyDict
    /\ trade_history = <<>>
    /\ last_prices \in PriceCaches
    /\ response = NoResponse
    /\ price_query = NoQuery
    /\ pc = "idle"
    /\ config_file = config
    /\ max_history_items = 100
    /\ status = NoStatus
    /\ api_status = NoApiStatus
    /\ request_pc = NoRequests

NextPrice ==
    \E symbol \in QuerySymbols, live \in LiveOutcomes, r \in RandomPercents :
        price_lookup(symbol, live, r)

SpecPrice == InitPrice /\ [][NextPrice]_vars

\* The credential runs: every configuration, environment and backup file the
\* process can be constructed on, the commands that touch credentials or the
\* run state, and the two GET routes.  No order is placed.
InitCred ==
    /\ Construct
    /\ max_history_items = 100

NextCred ==
    \/ \E ack, backup_ok, save_ok, connect_ok \in BOOLEAN :
           handle_start(ack, backup_ok, save_ok, connect_ok)
    \/ handle_stop
    \/ \E key, secret \in KeyValues, backup_ok, save_ok, connect_ok \in BOOLEAN :
           handle_api(key, secret, backup_ok, save_ok, connect_ok)
    \/ \E connect_ok, ping_ok \in BOOLEAN : get_api_status(connect_ok, ping_ok)
    \/ \E lm \in LiveMaps(client, holdings), rm \in RandomMaps(client, last_prices, holdings) :
           serve_status_file(lm, rm)

SpecCred == InitCred /\ [][NextCred]_vars

\* Orders as the executor sees them once the price source has answered: filled
\* at a live price, or at a simulated one when there is no client.
OrderInputs ==
    [side : {"buy", "sell"}, symbol : Symbols, quantity : Quantities,
     client : {LiveClient}, live : LivePrices, r : {0}]
    \cup
    [side : {"buy", "sell"}, symbol : Symbols, quantity : Quantities,
     client : {NoClient}, live : {LiveFail}, r : RandomPercents]

\* The ledger one order leaves.
execute(l, o) ==
    LET done == IF o.side = "buy"
                THEN place_buy_order(l.balance, l.holdings, l.trade_history, o.client,
                                     EmptyDict, o.symbol, o.quantity, o.live, o.r)
                ELSE place_sell_order(l.balance, l.holdings, l.trade_history, o.client,
                                      EmptyDict, o.symbol, o.quantity, o.live, o.r)
    IN [balance |-> done.balance, holdings |-> done.holdings,
        trade_history |-> done.trade_history]

\* The ledgers at most n orders lead to from a fresh account.
RECURSIVE Ledgers(_, _)
Ledgers(bal, n) ==
    IF n = 0
    THEN {[balance |-> bal, holdings |-> EmptyDict, trade_history |-> <<>>]}
    ELSE LET before == Ledgers(bal, n - 1)
         IN before \cup {execute(l, o) : l \in before, o \in OrderInputs}

\* The status runs: the engine after any orders, with or without a client,
\* with any cache over the held symbols, and GET /paper_trading_status.json.
InitStatus ==
    /\ config \in [balance : ConfigBalances, api_key : {"K"}, api_secret : {"K"}]
    /\ env = [api_key |-> "", api_secret |-> ""]
    /\ backup_file = [state |-> "absent", api_key |-> "", api_secret |-> ""]
    /\ client \in {NoClient, LiveClient}
    /\ is_running = TRUE
    /\ initial_balance = config.balance
    /\ \E l \in Ledgers(config.balance, MaxTrades) :
           /\ balance = l.balance
           /\ holdings = l.holdings
           /\ trade_history = l.trade_history
    /\ last_prices \in {lp \in PriceCaches : DOMAIN lp \subseteq DOMAIN holdings}
    /\ response = NoResponse
    /\ price_query = NoQuery
    /\ pc = "idle"
    /\ config_file = config
    /\ max_history_items \in HistoryLimits
    /\ status = NoStatus
    /\ api_status = NoApiStatus
    /\ request_pc = NoRequests

NextStatus ==
    \E lm \in LiveMaps(client, holdings), rm \in RandomMaps(client, last_prices, holdings) :
        serve_status_file(lm, rm)

SpecStatus == InitStatus /\ [][NextStatus]_vars

\* The threaded runs: a reset request, a buy request and GET
\* /paper_trading_status.json, each in a thread of its own, on the engine
\* after any orders.
InitConc ==
    /\ InitStatus
    /\ max_history_items = 100

NextConc ==
    \/ reset_request_stop
    \/ reset_request_balance
    \/ reset_request_initial_balance
    \/ reset_request_holdings
    \/ reset_request_trade_history
    \/ reset_request_last_prices
    \/ reset_request_answer
    \/ buy_request_check
    \/ \E symbol \in Symbols, quantity \in Quantities :
         \E live \in LiveChoices(client), r \in RandomChoices(client, last_prices, symbol) :
           buy_request_place(symbol, quantity, live, r)
    \/ \E lm \in LiveMaps(client, holdings), rm \in RandomMaps(client, last_prices, holdings) :
           serve_status_file(lm, rm)

SpecConc == InitConc /\ [][NextConc]_vars

\* The runs of a price query against credential updates: the query reads
\* self.client, the api command replaces or clears it, the query goes on.
InitQuery == InitPrice

NextQuery ==
    \/ \E symbol \in QuerySymbols : query_request_check(symbol)
    \/ \E live \in LiveOutcomes, r \in RandomPercents :
           /\ price_query.had_client \/ live = LiveFail
           /\ query_request_finish(live, r)
    \/ \E key, secret \in KeyValues, backup_ok, save_ok, connect_ok \in BOOLEAN :
           handle_api(key, secret, backup_ok, save_ok, connect_ok)

SpecQuery == InitQuery /\ [][NextQuery]_vars

\* ==================================================================== claims
\* The step is one the buy handler can take: the handler answers as 'buy'.
BuyStep(symbol, quantity, live, r) ==
    /\ response'.command = "buy"
    /\ handle_buy(symbol, quantity, live, r)

\* The step is one the sell handler can take.
SellStep(symbol, quantity, live, r) ==
    /\ response'.command = "sell"
    /\ handle_sell(symbol, quantity, live, r)

\* Some order command is handled in this step.
OrderStep ==
    \E symbol \in Symbols, quantity \in Quantities :
      \E live \in LiveChoices(client), r \in RandomChoices(client, last_prices, symbol) :
        BuyStep(symbol, quantity, live, r) \/ SellStep(symbol, quantity, live, r)

\* The price the price source resolves for an order on symbol.
ResolvedPrice(symbol, live, r) ==
    get_current_price(client, last_prices, symbol, live, r).price

\* Sum of the trade values of a history, buys negative and sells positive.
RECURSIVE SignedSum(_)
SignedSum(hist) ==
    IF hist = <<>>
    THEN 0
    ELSE (IF Head(hist).side = "buy" THEN 0 - Head(hist).value ELSE Head(hist).value)
         + SignedSum(Tail(hist))

\* Price of the latest trade in symbol (0 when there is none).
RECURSIVE LastTradePrice(_, _)
LastTradePrice(hist, symbol) ==
    IF hist = <<>>
    THEN 0
    ELSE IF hist[Len(hist)].symbol = symbol
    THEN hist[Len(hist)].price
    ELSE LastTradePrice(SubSeq(hist, 1, Len(hist) - 1), symbol)

\* Value of the holdings at the price each symbol last traded at.
RECURSIVE HoldingsValue(_, _, _)
HoldingsValue(hold, todo, hist) ==
    IF todo = {}
    THEN 0
    ELSE LET s == CHOOSE x \in todo : TRUE
         IN hold[s] * LastTradePrice(hist, s) + HoldingsValue(hold, todo \ {s}, hist)

\* C1: a buy or sell command handled while the engine is stopped is answered
\* with the error "Trading is not running" and leaves balance, holdings, trade
\* history and is_running as they were; an order step that changes the ledger
\* starts from a running engine.
C1_StoppedOrdersRejected ==
    [][ /\ (~is_running /\ OrderStep) =>
              /\ response'.status = "error"
              /\ response'.message = "Trading is not running"
              /\ UNCHANGED <<ledger, is_running>>
        /\ (ledger' # ledger /\ OrderStep) => is_running ]_vars

\* C1 witness: a stopped engine with trades on its books has just refused a buy.
C1_Witness ==
    /\ ~is_running
    /\ trade_history # <<>>
    /\ response = Answer("buy", "error", "Trading is not running")

\* C2: a buy whose quantity times the resolved price exceeds the balance is
\* answered with an error and leaves balance, holdings and trade history
\* exactly as they were.
C2_BuyOverBalanceRejected ==
    [][ \A symbol \in Symbols, quantity \in Quantities :
        \A live \in LiveChoices(client), r \in RandomChoices(client, last_prices, symbol) :
          ( /\ response'.command = "buy"
            /\ ResolvedPrice(symbol, live, r) # None
            /\ quantity * ResolvedPrice(symbol, live, r) > balance
            /\ BuyStep(symbol, quantity, live, r) )
          => /\ response'.status = "error"
             /\ UNCHANGED ledger ]_vars

\* C2 witness: a running engine that already bought has refused a buy for
\* lack of funds.
C2_Witness ==
    /\ is_running
    /\ holdings # EmptyDict
    /\ balance > 0
    /\ response = Answer("buy", "error", "Insufficient funds")

\* C3: a sell whose quantity exceeds the holding of the symbol (zero when the
\* symbol is absent) is answered with an error and leaves balance, holdings
\* and trade history as they were.
C3_SellOverHoldingRejected ==
    [][ \A symbol \in Symbols, quantity \in Quantities :
        \A live \in LiveChoices(client), r \in RandomChoices(client, last_prices, symbol) :
          ( /\ quantity > DictGet(holdings, symbol, 0)
            /\ SellStep(symbol, quantity, live, r) )
          => /\ response'.status = "error"
             /\ UNCHANGED ledger ]_vars

\* C3 witness: a running engine holding one symbol has refused a sell of a
\* symbol it does not hold in that quantity.
C3_Witness ==
    /\ is_running
    /\ holdings # EmptyDict
    /\ response = Answer("sell", "error", "Insufficient holdings")

\* C4 as stated: balance plus the value of the holdings equals the initial
\* balance plus the signed sum of the trade values.
C4_Original ==
    balance + HoldingsValue(holdings, DOMAIN holdings, trade_history)
        = initial_balance + SignedSum(trade_history)

\* C4 amended: the balance alone equals the initial balance plus the signed
\* sum of the trade values (buys negative, sells positive), and every trade
\* record's value is its quantity times its price.
C4_BalanceIsInitialPlusSignedTrades ==
    /\ balance = initial_balance + SignedSum(trade_history)
    /\ \A i \in 1..Len(trade_history) :
          trade_history[i].value = trade_history[i].quantity * trade_history[i].price

\* C4 witness: a buy followed by a sell, with something still held.
C4_Witness ==
    /\ Len(trade_history) = 2
    /\ trade_history[1].side = "buy"
    /\ trade_history[2].side = "sell"
    /\ balance # initial_balance

\* C5: once a reset has answered, and until the next command is handled, the
\* balance is the configured balance and holdings and trade history are empty.
C5_ResetRestoresLedger ==
    (response.command = "reset" /\ pc = "idle") =>
        /\ balance = config.balance
        /\ initial_balance = config.balance
        /\ holdings = EmptyDict
        /\ trade_history = <<>>

\* C5 witness: a reset under way on a ledger that has traded, holds a
\* position, and whose credentials were updated since construction.
C5_Witness ==
    /\ pc = "reset_account"
    /\ trade_history # <<>>
    /\ holdings # EmptyDict
    /\ balance # config.balance
    /\ backup_file = [state |-> "ok", api_key |-> "K", api_secret |-> "K"]

\* C6: the reset handler stops the engine before it touches the ledger: its
\* first step leaves the ledger alone and ends stopped, its second step clears
\* the ledger starting from a stopped engine, and it returns with the engine
\* stopped.
C6_ResetStopsFirst ==
    [][ /\ (pc = "idle" /\ pc' = "reset_account") => (~is_running' /\ UNCHANGED ledger)
        /\ (pc = "reset_account" /\ pc' = "idle") =>
              /\ ~is_running
              /\ ~is_running'
              /\ response'.command = "reset"
              /\ holdings' = EmptyDict /\ trade_history' = <<>> ]_vars

\* C6 witness: a reset that arrived at a running engine (the last answer was
\* an executed order) has stopped it and has not cleared the ledger yet.
C6_Witness ==
    /\ pc = "reset_account"
    /\ ~is_running
    /\ response.command = "buy" /\ response.status = "success"
    /\ trade_history # <<>>

\* Neither the configuration nor the recovery sources hold a complete pair.
NoKeysAnywhere ==
    /\ ~api_keys_configured(config)
    /\ ~(env.api_key # "" /\ env.api_secret # "")
    /\ ~(backup_file.state = "ok" /\ backup_file.api_key # "" /\ backup_file.api_secret # "")

\* The step is one the start handler can take.
StartStep(ack, backup_ok, save_ok, connect_ok) ==
    /\ response'.command = "start"
    /\ handle_start(ack, backup_ok, save_ok, connect_ok)

\* C7 as stated: without keys anywhere, a start request carrying the
\* synthetic-price acknowledgment succeeds and the engine runs.
C7_Original ==
    [][ \A backup_ok, connect_ok \in BOOLEAN :
          (~is_running /\ NoKeysAnywhere /\ StartStep(TRUE, backup_ok, TRUE, connect_ok))
          => (is_running' /\ response'.status = "success") ]_vars

\* C7 amended: without keys anywhere a start request is refused with "API keys
\* not configured", acknowledgment or not, and the engine stays stopped; an
\* engine running without a live client and without a cached price for the
\* symbol fills an affordable buy at the simulated price.
C7_StartNeedsKeys ==
    [][ /\ \A ack, backup_ok, connect_ok \in BOOLEAN :
             (~is_running /\ NoKeysAnywhere /\ StartStep(ack, backup_ok, TRUE, connect_ok))
             => /\ response' = Answer("start", "error", "API keys not configured")
                /\ ~is_running'
                /\ UNCHANGED <<credentials, ledger, last_prices>>
        /\ \A symbol \in Symbols, quantity \in Quantities, r \in RandomPercents :
             ( /\ is_running /\ client = NoClient /\ symbol \notin DOMAIN last_prices
               /\ quantity > 0 /\ quantity * SyntheticPrice(symbol, r) <= balance
               /\ BuyStep(symbol, quantity, LiveFail, r) )
             => /\ response'.status = "success"
                /\ trade_history' = Append(trade_history,
                       Trade(symbol, "buy", quantity, SyntheticPrice(symbol, r),
                             balance - quantity * SyntheticPrice(symbol, r))) ]_vars

\* C7 witness: a start request has just been refused for lack of keys.
C7_Witness ==
    /\ NoKeysAnywhere
    /\ ~is_running
    /\ response = Answer("start", "error", "API keys not configured")

\* A get_current_price call has been made and recorded.
Queried == price_query.symbol # ""

\* The recorded call found neither a usable live answer nor a cache entry.
NoLiveNoCache ==
    /\ Queried
    /\ price_query.cached = None
    /\ (~price_query.had_client \/ price_query.live = LiveFail)

\* p lies in the interval the simulation draws the price of symbol from.
Plausible(symbol, p) ==
    /\ p >= SyntheticBase(symbol) - SyntheticSpread(symbol) \div 2
    /\ p < SyntheticBase(symbol) + SyntheticSpread(symbol) \div 2

C9_FailedQueryReturnsCache ==
    (Queried /\ price_query.had_client /\ price_query.live = LiveFail
       /\ price_query.cached # None)
    => /\ price_query.price = price_query.cached
       /\ ~price_query.raised
       /\ price_query.symbol \in DOMAIN last_prices
       /\ last_prices[price_query.symbol] = price_query.cached

\* C9 witness: a failed live query on a cached symbol returned the cached price.
C9_Witness ==
    /\ Queried
    /\ price_query.had_client
    /\ price_query.live = LiveFail
    /\ price_query.cached \in LivePrices
    /\ price_query.price = price_query.cached

\* C10: a successful live query with price p returns p and leaves p in the
\* cache entry of the symbol, whatever it held, and changes no other entry.
C10_LiveSuccessOverwritesCache ==
    [][ \A symbol \in QuerySymbols, live \in LivePrices, r \in RandomPercents :
          (price_lookup(symbol, live, r) /\ client # NoClient)
          => /\ price_query'.price = live
             /\ ~price_query'.raised
             /\ symbol \in DOMAIN last_prices'
             /\ last_prices'[symbol] = live
             /\ DOMAIN last_prices' = DOMAIN last_prices \cup {symbol}
             /\ \A other \in DOMAIN last_prices \ {symbol} :
                   last_prices'[other] = last_prices[other] ]_vars

\* C10 witness: a successful live query replaced a different cached price
\* while another symbol's entry stood by.
C10_Witness ==
    /\ Queried
    /\ price_query.had_client
    /\ price_query.live \in LivePrices
    /\ price_query.cached \in LivePrices \ {price_query.live}
    /\ price_query.price = price_query.live
    /\ last_prices[price_query.symbol] = price_query.live
    /\ DOMAIN last_prices # {price_query.symbol}

\* C11 as stated: a cache entry, once recorded, is still present after any
\* engine operation, reset included.
C11_Original ==
    [][ \A s \in DOMAIN last_prices : s \in DOMAIN last_prices' ]_vars

\* C11 amended: a cache entry is never expired.  Outside an account reset every
\* step (start, stop, order, credential update, price query) keeps each entry,
\* and an entry's value changes only to a price a live client reported in that
\* step; the account reset empties the cache.
C11_CacheKeptUntilReset ==
    [][ /\ pc # "reset_account"
           => \A s \in DOMAIN last_prices :
                /\ s \in DOMAIN last_prices'
                /\ last_prices'[s] # last_prices[s]
                   => (client' # NoClient /\ last_prices'[s] \in LivePrices)
        /\ (pc = "reset_account" /\ pc' = "idle") => last_prices' = EmptyDict ]_vars

\* An entry outlived the credential update that lost the client and the stop
\* that followed, in an engine that has traded.
C11_Witness ==
    /\ last_prices # EmptyDict
    /\ client = NoClient
    /\ ~is_running
    /\ trade_history # <<>>
    /\ response.command = "stop"

\* C12 as stated: with both keys configured, GET /api-status reports
\* api_working = false when the connection probe failed, and api_working =
\* true only when it succeeded.
C12_Original ==
    (api_status.asked /\ api_status.keys_configured)
        => (api_status.api_working = api_status.probe_ok)

\* The environment holds a complete pair.
EnvComplete == env.api_key # "" /\ env.api_secret # ""

\* The backup file is readable and holds a complete pair.
FileComplete ==
    backup_file.state = "ok" /\ backup_file.api_key # "" /\ backup_file.api_secret # ""

\* C13: a start of a stopped engine whose configuration lacks a complete pair
\* recovers credentials from the environment first and from the backup file
\* second: it adopts the environment's pair when that is complete, otherwise
\* the file's pair when that is complete, never an incomplete pair, and when
\* neither is complete it answers "API keys not configured" and leaves the
\* stored credentials as they were.
C13_RecoveryOrder ==
    [][ \A ack, backup_ok, save_ok, connect_ok \in BOOLEAN :
          (/\ ~is_running
           /\ config.api_key = "" \/ config.api_secret = ""
           /\ StartStep(ack, backup_ok, save_ok, connect_ok))
          => /\ EnvComplete
                => (config'.api_key = env.api_key /\ config'.api_secret = env.api_secret)
             /\ (~EnvComplete /\ FileComplete)
                => (/\ config'.api_key = backup_file.api_key
                    /\ config'.api_secret = backup_file.api_secret)
             /\ (~EnvComplete /\ ~FileComplete)
                => (/\ response' = Answer("start", "error", "API keys not configured")
                    /\ UNCHANGED credentials)
             /\ config' # config => (config'.api_key # "" /\ config'.api_secret # "") ]_vars

\* The environment's pair was adopted although the backup file held a complete
\* pair of its own (which the failed backup write left in place).
C13_Witness ==
    /\ is_running
    /\ response = Answer("start", "success", "Trading started")
    /\ config.api_key = "EK" /\ config.api_secret = "ES"
    /\ backup_file.api_key = "BK"

\* The configuration holds a key without a secret or a secret without a key.
LoneKey(cfg) == (cfg.api_key = "") # (cfg.api_secret = "")

\* The configuration holds both a key and a secret.
BothKeys(cfg) == cfg.api_key # "" /\ cfg.api_secret # ""

\* C14: configured() is true exactly when both the key and the secret are
\* non-empty, and a configuration holding only one of them counts as not
\* configured everywhere: the served status and the API status flag it as not
\* configured, no client exists, and a start of the stopped engine goes through
\* credential recovery (it runs on a recovered pair or is refused with "API
\* keys not configured").
C14_LoneKeyNotConfigured ==
    [][ /\ api_keys_configured(config') = BothKeys(config')
        /\ status' # status => status'.api_keys_configured = BothKeys(config')
        /\ api_status' # api_status
           => (/\ api_status'.keys_configured = BothKeys(config')
               /\ LoneKey(config') => ~api_status'.api_working)
        /\ LoneKey(config') => client' = NoClient
        /\ \A ack, backup_ok, save_ok, connect_ok \in BOOLEAN :
             (~is_running /\ LoneKey(config) /\ StartStep(ack, backup_ok, save_ok, connect_ok))
             => IF EnvComplete \/ FileComplete
                THEN /\ BothKeys(config')
                     /\ config'.api_key \in {env.api_key, backup_file.api_key}
                     /\ is_running'
                ELSE /\ response' = Answer("start", "error", "API keys not configured")
                     /\ ~is_running'
                     /\ UNCHANGED credentials ]_vars

\* A configuration with a key and no secret: the start was refused, no client
\* exists, and both GET routes were answered "not configured".
C14_Witness ==
    /\ config.api_key # "" /\ config.api_secret = ""
    /\ response = Answer("start", "error", "API keys not configured")
    /\ client = NoClient
    /\ status.served /\ ~status.api_keys_configured
    /\ api_status.asked /\ ~api_status.keys_configured

\* The step is one the stop handler takes.
StopStep ==
    /\ response'.command = "stop"
    /\ handle_stop

\* C15: a stop request always succeeds and leaves the engine stopped; sent to
\* an engine that is already stopped it changes nothing: run state, balance,
\* holdings, trade history, cache and credentials stay as they were.
C15_StopIdempotent ==
    [][ StopStep
          => /\ response'.status = "success"
             /\ ~is_running'
             /\ UNCHANGED ledger
             /\ ~is_running
                => UNCHANGED <<is_running, ledger, initial_balance, last_prices, credentials>>
      ]_vars

\* A stopped engine with trades and holdings answered a further stop.
C15_Witness ==
    /\ ~is_running
    /\ response = Answer("stop", "success", "Trading already stopped")
    /\ trade_history # <<>>
    /\ holdings # EmptyDict

\* C16: with a configured initial balance that is not negative, the balance
\* is never negative and no holding's quantity is negative, in every
\* reachable state.
C16_NothingNegative ==
    config.balance >= 0
        => /\ balance >= 0
           /\ \A s \in DOMAIN holdings : holdings[s] >= 0

\* The ledger after a fill, with a further buy refused for lack of funds.
C16_Witness ==
    /\ holdings # EmptyDict
    /\ balance < initial_balance
    /\ response = Answer("buy", "error", "Insufficient funds")

\* Prices a query for symbol can return.
PricesOf(symbol) == LivePrices \cup {SyntheticPrice(symbol, r) : r \in RandomPercents}

\* Value of the symbols of todo at the prices p.
RECURSIVE ValueAt(_, _, _)
ValueAt(hold, todo, p) ==
    IF todo = {}
    THEN 0
    ELSE LET s == CHOOSE x \in todo : TRUE
         IN hold[s] * p[s] + ValueAt(hold, todo \ {s}, p)

\* C17 as stated: the served status lists every held symbol with its ledger
\* quantity, and its portfolio_value is the balance plus quantity times price
\* over every held symbol, also when a price query failed.
C17_Original ==
    status.served
        => /\ status.holdings = holdings
           /\ \E p \in [DOMAIN holdings -> UNION {PricesOf(s) : s \in DOMAIN holdings}] :
                /\ \A s \in DOMAIN holdings : p[s] \in PricesOf(s)
                /\ status.portfolio_value = balance + ValueAt(holdings, DOMAIN holdings, p)

\* The smaller of two numbers.
Min(a, b) == IF a < b THEN a ELSE b

\* C18: for a positive max_history_items N, the trade history of a status just
\* produced is exactly the last min(N, length) trades of the ledger's history,
\* in execution order, and producing the status leaves the ledger's history as
\* it was.
C18_StatusShowsRecentTrades ==
    [][ status' # status
          => /\ trade_history' = trade_history
             /\ max_history_items > 0
                => LET k == Min(max_history_items, Len(trade_history))
                   IN /\ Len(status'.trade_history) = k
                      /\ \A i \in 1..k :
                           status'.trade_history[i]
                               = trade_history[Len(trade_history) - k + i] ]_vars

\* A status limited to one trade, served from a ledger of two different trades.
C18_Witness ==
    /\ status.served
    /\ max_history_items = 1
    /\ Len(trade_history) = 2
    /\ trade_history[1] # trade_history[2]
    /\ status.trade_history = <<trade_history[2]>>

\* The step is one the api handler takes on a complete pair.
ApiStep(key, secret, backup_ok, save_ok, connect_ok) ==
    /\ response'.command = "api"
    /\ key # "" /\ secret # ""
    /\ handle_api(key, secret, backup_ok, save_ok, connect_ok)

\* C19: a credential update takes effect in memory whatever happens to the two
\* files.  After the api command on (key, secret) the configuration holds
\* exactly that pair and the client is the one create_client makes from it (a
\* client whenever the exchange answers), whether or not the backup file or
\* the configuration file could be written, and the command answers success.
\* The same holds for the update a start makes with recovered keys.
C19_UpdateSurvivesFailedWrites ==
    [][ \A backup_ok, save_ok, connect_ok \in BOOLEAN :
          /\ \A key, secret \in KeyValues :
               ApiStep(key, secret, backup_ok, save_ok, connect_ok)
               => /\ config'.api_key = key /\ config'.api_secret = secret
                  /\ client' = IF connect_ok THEN LiveClient ELSE NoClient
                  /\ response' = Answer("api", "success", "API keys updated")
          /\ \A ack \in BOOLEAN :
               (/\ ~is_running
                /\ ~BothKeys(config)
                /\ EnvComplete \/ FileComplete
                /\ StartStep(ack, backup_ok, save_ok, connect_ok))
               => /\ BothKeys(config')
                  /\ client' = IF connect_ok THEN LiveClient ELSE NoClient
                  /\ response' = Answer("start", "success", "Trading started") ]_vars

\* Both writes failed, and the pair is in the configuration with a client
\* made from it.
C19_Witness ==
    /\ response = Answer("api", "success", "API keys updated")
    /\ config.api_key = "K" /\ config.api_secret = "K"
    /\ client = LiveClient
    /\ backup_file.state = "absent"
    /\ config_file.api_key = "" /\ config_file.api_secret = ""

\* C20: the return_pct of a status just produced is exactly 0 when the initial
\* balance is 0, computing it raises no division error, and for a positive
\* initial balance it is profit_loss / initial_balance * 100 (in whole
\* percent, rounded down).
C20_ReturnPctGuarded ==
    [][ status' # status
          => LET hundredth == initial_balance \div 100
                 pct == status'.return_pct
             IN /\ ~status'.raised
                /\ initial_balance = 0 => pct = 0
                /\ initial_balance > 0
                   => /\ pct * hundredth <= status'.profit_loss
                      /\ status'.profit_loss < (pct + 1) * hundredth
                      /\ status'.profit_loss = status'.portfolio_value - initial_balance
      ]_vars

\* A status served from an account whose initial balance is 0.
C20_Witness ==
    /\ status.served
    /\ initial_balance = 0
    /\ status.return_pct = 0
    /\ ~status.raised

\* reset_account has written the balance and has ledger fields left to write.
ResetInFlight == request_pc.reset \in {"initial_balance", "holdings", "trade_history"}

\* C21 as stated: no two ledger mutations are in flight at once.  While
\* reset_account is part-way through the ledger no order writes the ledger
\* and no status is produced from it, so nothing observes a partly reset
\* ledger.
C21_Original ==
    [][ ResetInFlight
          => /\ Len(trade_history') <= Len(trade_history)
             /\ status' = status ]_vars

\* The step answers a price query whose self.client was replaced or cleared
\* while it was in flight.
StaleQueryAnswered ==
    /\ request_pc.query = "in_flight"
    /\ request_pc'.query = "answered_stale"

\* C22: a price query that was in flight while a credential update replaced
\* or cleared the client never raises to its caller.  It either completes
\* (the live price is returned and cached) or fails safely: with a cache entry
\* for the symbol it returns that entry, and without one it returns no price.
\* A query that saw no client returns the cache entry when there is one.
C22_StaleQueryFailsSafely ==
    [][ StaleQueryAnswered
          => LET s == price_query.symbol
                 q == price_query'
             IN /\ ~q.raised
                /\ (q.had_client /\ q.live # LiveFail)
                   => (q.price = q.live /\ last_prices'[s] = q.live)
                /\ (q.live = LiveFail /\ s \in DOMAIN last_prices)
                   => (q.price = last_prices[s] /\ last_prices' = last_prices)
                /\ (q.had_client /\ q.live = LiveFail /\ s \notin DOMAIN last_prices)
                   => (q.price = None /\ last_prices' = last_prices)
                /\ (~q.had_client /\ s \in DOMAIN last_prices)
                   => q.price = last_prices[s] ]_vars

\* The query saw a client, the credential update cleared it, the ticker query
\* failed and the cached price came back.
C22_Witness ==
    /\ request_pc.query = "answered_stale"
    /\ price_query.had_client
    /\ client = NoClient
    /\ response = Answer("api", "success", "API keys updated")
    /\ price_query.live = LiveFail
    /\ ~price_query.raised
    /\ price_query.price \in LivePrices
    /\ price_query.price = price_query.cached

\* C23: a price resolution writes the price cache only when its live query
\* succeeded, and then only the entry of the symbol asked for; a call that
\* returns a cached, simulated or default price, or no price, leaves the cache
\* as it was; and no price resolution changes balance, holdings, trade
\* history or is_running.
C23_OnlyLiveSuccessWritesCache ==
    [][ \A symbol \in QuerySymbols, live \in LiveOutcomes, r \in RandomPercents :
          price_lookup(symbol, live, r)
          => /\ (client = NoClient \/ live = LiveFail) => last_prices' = last_prices
             /\ last_prices' # last_prices
                => (/\ client # NoClient
                    /\ live # LiveFail
                    /\ last_prices' = DictSet(last_prices, symbol, live))
             /\ UNCHANGED <<ledger, initial_balance, is_running>> ]_vars

\* Without a client a simulated price was returned for a symbol the cache
\* still has no entry for.
C23_Witness ==
    /\ price_query.symbol = "ETHUSDT"
    /\ ~price_query.had_client
    /\ price_query.price = SyntheticPrice("ETHUSDT", 99)
    /\ "ETHUSDT" \notin DOMAIN last_prices
    /\ "LTCUSDT" \in DOMAIN last_prices

====
